---- MODULE Spec2Model ----
(***************************************************************************)
(* Model of custom_rngs.RandomGen: a weighted discrete-value sampler.      *)
(*                                                                         *)
(* Real numbers (outcomes, probabilities, cdf entries, uniform draws) are  *)
(* fixed-point integers in units of 1/Den, so 1.0 is Den and 0.3 is        *)
(* 3*Den/10.  Arithmetic is exact; the inputs are chosen so that every     *)
(* division the code performs on them is exact as well.                    *)
(*                                                                         *)
(* Python lists are objects with identity.  `heap` maps a list id to the   *)
(* list's current contents; an instance holds the ids of the lists it      *)
(* references, so that two references to one list see each other's         *)
(* in-place mutations (list.pop, list.remove).                             *)
(***************************************************************************)
EXTENDS Integers, Sequences, FiniteSets, TLC

\* ------------------------------------------------------------------ scale
Den == 43200000          \* fixed-point unit: the real number 1.0
Tol == 432               \* numpy.isclose(x, 1): |x - 1| <= 1e-8 + 1e-5 * 1

\* ----------------------------------------------------------------- bounds
MaxDraws == 2            \* uniform draws taken from one random source
MaxK     == 2            \* largest count passed to next_k_nums

\* ------------------------------------------------------- object identities
Samplers  == {1, 2}      \* RandomGen instances that may be constructed
CallerIds == {1, 2}      \* lists created and owned by the caller
OwnId(s)  == 10 + s      \* the list object instance s allocates for itself
ListIds   == CallerIds \cup {OwnId(s) : s \in Samplers}
InjRng    == 0           \* a random source the caller injects (rng=...)
RngIds    == {InjRng} \cup Samplers   \* s: the random.Random() s creates
NoSeed    == 0           \* Python None for a seed
Seeds     == {7}
None      == [some |-> FALSE, v |-> 0]
Some(x)   == [some |-> TRUE, v |-> x]

\* --------------------------------------------------------- caller's inputs
\* the two lists the caller holds, << list 1, list 2 >>; either may be
\* passed as random_nums or as probabilities
CallerInputs ==
  { << << -Den, 0, Den >>,                          \* [-1, 0, 1]
       << 3 * (Den \div 10), 3 * (Den \div 10), 4 * (Den \div 10) >> >>,
    << << -Den, 0, Den >>,
       << Den \div 10, Den \div 10 >> >>,           \* [0.1, 0.1]
    << << -Den, 0, Den >>,
       << -(Den \div 10), 11 * (Den \div 10), 0 >> >>,   \* [-0.1, 1.1, 0.0]
    << << -Den, 0, Den, 2 * Den >>,                 \* [-1, 0, 1, 2]
       << Den \div 4, Den \div 4, Den \div 4, Den \div 4 >> >>,
    << << Den \div 4, 3 * (Den \div 4) >>,          \* [0.25, 0.75]
       << >> >>,
    << << Den \div 2, Den \div 2 - 216 >>,          \* [0.5, 0.499995]
       << Den, 216 >> >> }                          \* [1.0, 0.000005]

\* uniform values the random source may return, all in [0, 1)
RVals == {0, 3 * (Den \div 10), Den - 1}

\* selectors a caller may pass to remove()
ValueArgs == {-Den, 0, Den \div 2, 5 * Den}
IndexArgs == -4 .. 3

\* counts a caller may pass to next_k_nums(); 1.5 is [int |-> FALSE]
KArgs == {[int |-> TRUE, v |-> k] : k \in -1 .. MaxK} \cup {[int |-> FALSE, v |-> 1]}

VARIABLES heap, inst, rngs, kgen, ret
vars == << heap, inst, rngs, kgen, ret >>

\* ------------------------------------------------------------ list helpers
Range(q) == {q[i] : i \in 1 .. Len(q)}

RECURSIVE SumSeq(_)
SumSeq(q) == IF q = << >> THEN 0 ELSE q[1] + SumSeq(Tail(q))

\* numpy.cumsum: prefix sums, same length and order as the input
cumsum(q) == [i \in 1 .. Len(q) |-> SumSeq(SubSeq(q, 1, i))]

\* list.pop(i) / del list[i] for a 1-based position i
RemoveAt(q, i) == SubSeq(q, 1, i - 1) \o SubSeq(q, i + 1, Len(q))

\* list.index(x): 1-based position of the first element equal to x
IndexOf(q, x) == CHOOSE i \in 1 .. Len(q) : q[i] = x /\ \A j \in 1 .. i - 1 : q[j] # x

\* numpy.searchsorted(a, v, side='left'): binary search over a[lo..hi),
\* 0-based as in numpy; the result is a 0-based insertion point
RECURSIVE BinSearchLeft(_, _, _, _)
BinSearchLeft(a, v, lo, hi) ==
  IF lo >= hi THEN lo
  ELSE LET mid == lo + ((hi - lo) \div 2)
       IN  IF a[mid + 1] < v THEN BinSearchLeft(a, v, mid + 1, hi)
                             ELSE BinSearchLeft(a, v, lo, mid)

searchsorted(a, v) == BinSearchLeft(a, v, 0, Len(a))

\* numpy.isclose(x, 1) with the default rtol=1e-5, atol=1e-8
isclose1(x) == x - Den <= Tol /\ Den - x <= Tol

\* ------------------------------------------------------------------- state
NoInst == [alive |-> FALSE, nums |-> 0, probs |-> 0, cdf |-> << >>,
           seed |-> NoSeed, rng |-> 0]
NoGen  == [state |-> "none", s |-> 0, k0 |-> [int |-> TRUE, v |-> 0], k |-> 0,
           yielded |-> 0, advanced |-> 0]
Ret(op, s, status) ==
  [op |-> op, s |-> s, status |-> status, r |-> 0, idx |-> 0, out |-> 0,
   rn |-> 0, pr |-> 0, value |-> None, index |-> None]

Init ==
  /\ \E c \in CallerInputs :
       heap = [i \in ListIds |-> IF i \in CallerIds THEN c[i] ELSE << >>]
  /\ inst = [s \in Samplers |-> NoInst]
  /\ rngs = [g \in RngIds |-> [seed |-> NoSeed, count |-> 0]]
  /\ kgen = NoGen
  /\ ret = Ret("init", 0, "ok")

\* ------------------------------------------------------ RandomGen.__init__
\* the checks of __init__ in the order the code makes them; "ok" when none
\* raises.  pr = 0 is probabilities=None; `if probabilities:` is Python
\* truthiness, so an empty list takes the else branch as None does
Validate(h, rn, pr) ==
  LET nums == h[rn]
      n    == Len(nums)
  IN  IF n = 0 THEN "EmptyInput"
      ELSE IF Cardinality(Range(nums)) < n THEN "DuplicateValue"
      ELSE IF pr # 0 /\ Len(h[pr]) > 0
           THEN IF Len(h[pr]) # n THEN "LengthMismatch"
                ELSE IF \/ ~isclose1(SumSeq(h[pr]))
                        \/ \E i \in 1 .. n : h[pr][i] <= 0 \/ h[pr][i] > Den
                     THEN "InvalidProbability"
                     ELSE "ok"
           ELSE "ok"

\* [1 / n] * n
Uniform(n) == [i \in 1 .. n |-> Den \div n]

\* RandomGen(random_nums, probabilities, seed, rng) bound to slot s.
\* rn, pr are the ids of the caller's lists (pr = 0: None); inj tells
\* whether the caller injects its own random source.
Construct(s, rn, pr, seed, inj) ==
  /\ ~inst[s].alive
  /\ LET g      == IF inj THEN InjRng ELSE s
         status == Validate(heap, rn, pr)
         fresh  == IF inj THEN rngs
                   ELSE [rngs EXCEPT ![s] = [seed |-> NoSeed, count |-> 0]]
         seeded == IF seed # NoSeed
                   THEN [fresh EXCEPT ![g] = [seed |-> seed, count |-> 0]]
                   ELSE fresh
         n      == Len(heap[rn])
         given  == pr # 0 /\ Len(heap[pr]) > 0
         probs  == IF given THEN pr ELSE OwnId(s)
         heap1  == IF given THEN heap
                   ELSE [heap EXCEPT ![OwnId(s)] = Uniform(n)]
     IN  /\ ret' = [Ret("construct", s, status) EXCEPT !.rn = rn, !.pr = pr]
         /\ IF status = "ok"
            THEN /\ rngs' = seeded
                 /\ heap' = heap1
                 /\ inst' = [inst EXCEPT ![s] =
                      [alive |-> TRUE, nums |-> rn, probs |-> probs,
                       cdf |-> cumsum(heap1[probs]), seed |-> seed, rng |-> g]]
            ELSE \* the half-built instance is dropped with the random source
                 \* it created; an injected source keeps the seed it was given
                 /\ rngs' = IF inj THEN seeded ELSE rngs
                 /\ UNCHANGED << heap, inst >>
  /\ UNCHANGED kgen

\* ------------------------------------------------------ RandomGen.__next__
\* one draw from instance s when its random source returns r
DrawStatus(s, r) ==
  IF searchsorted(inst[s].cdf, r) < Len(heap[inst[s].nums]) THEN "ok" ELSE "IndexError"

DrawOut(s, r) == heap[inst[s].nums][searchsorted(inst[s].cdf, r) + 1]

Advance(g) == [rngs EXCEPT ![g].count = @ + 1]

\* next(self) / next_num(): also one step of `for v in instance`
NextNum(s, r) ==
  /\ inst[s].alive
  /\ rngs[inst[s].rng].count < MaxDraws
  /\ rngs' = Advance(inst[s].rng)
  /\ ret' = [Ret("next", s, DrawStatus(s, r)) EXCEPT
               !.r = r, !.idx = searchsorted(inst[s].cdf, r),
               !.out = IF DrawStatus(s, r) = "ok" THEN DrawOut(s, r) ELSE 0]
  /\ UNCHANGED << heap, inst, kgen >>

\* ---------------------------------------------------- RandomGen.next_k_nums
\* calling the generator function only creates the generator object: no
\* line of its body runs before the first next() on it
NextKNums(s, k) ==
  /\ inst[s].alive
  /\ kgen' = [state |-> "created", s |-> s, k0 |-> k, k |-> k.v,
              yielded |-> 0, advanced |-> 0]
  /\ ret' = Ret("next_k_nums", s, "ok")
  /\ UNCHANGED << heap, inst, rngs >>

\* isinstance(k, int) and k > 0
ValidCount(k) == k.int /\ k.v > 0

\* next() on the generator object: runs the body up to the next yield,
\* to the end of the loop (StopIteration) or to a raise
GenNext(r) ==
  /\ kgen.state \in {"created", "suspended"}
  /\ LET s == kgen.s
     IN  IF kgen.state = "created" /\ ~ValidCount(kgen.k0)
         THEN /\ kgen' = [kgen EXCEPT !.state = "raised"]
              /\ ret' = Ret("gen_next", s, "InvalidCount")
              /\ UNCHANGED rngs
         ELSE IF kgen.k = 0
         THEN /\ kgen' = [kgen EXCEPT !.state = "done"]
              /\ ret' = Ret("gen_next", s, "StopIteration")
              /\ UNCHANGED rngs
         ELSE /\ rngs[inst[s].rng].count < MaxDraws
              /\ rngs' = Advance(inst[s].rng)
              /\ kgen' = [kgen EXCEPT
                   !.k = @ - 1, !.advanced = @ + 1,
                   !.yielded = IF DrawStatus(s, r) = "ok" THEN @ + 1 ELSE @,
                   !.state = IF DrawStatus(s, r) = "ok" THEN "suspended" ELSE "raised"]
              /\ ret' = [Ret("gen_next", s, DrawStatus(s, r)) EXCEPT
                   !.r = r, !.idx = searchsorted(inst[s].cdf, r),
                   !.out = IF DrawStatus(s, r) = "ok" THEN DrawOut(s, r) ELSE 0]
  /\ UNCHANGED << heap, inst >>

\* -------------------------------------------------------- RandomGen.remove
\* Python indexing: the 1-based position list[i] refers to in a list of
\* length n (valid when it lies in 1..n)
PyPos(i, n) == (IF i < 0 THEN i + n ELSE i) + 1

\* a share of 1/n_prev, as if the removed outcome kept one
DeltaOverN(p, n_prev) == p \div n_prev

\* the equal share each remaining probability receives
Delta(p, n_prev) == p \div (n_prev - 1)

\* what the selector checks of remove() raise, "ok" when they pass
Selector(nums, value, index) ==
  IF value.some = index.some THEN "AmbiguousSelector"
  ELSE IF ~value.some /\ ~(-Len(nums) <= index.v /\ index.v < Len(nums))
       THEN "IndexOutOfRange"
  ELSE IF ~index.some /\ value.v \notin Range(nums)
       THEN "TypeError"     \* `raise "<str>"`: exceptions must derive from BaseException
  ELSE IF Len(nums) <= 1 THEN "SingleElement"
  ELSE "ok"

Remove(s, value, index) ==
  /\ inst[s].alive
  /\ LET me     == inst[s]
         nums   == heap[me.nums]
         n_prev == Len(nums)
         status == Selector(nums, value, index)
         tag    == [Ret("remove", s, status) EXCEPT !.value = value, !.index = index]
     IN  IF status # "ok"
         THEN /\ ret' = tag
              /\ UNCHANGED << heap, inst >>
         ELSE
         LET val   == IF value.some THEN value.v ELSE nums[PyPos(index.v, n_prev)]
             idx   == IF index.some THEN index.v ELSE IndexOf(nums, val) - 1
             plist == heap[me.probs]
             ppos  == PyPos(idx, Len(plist))
         IN  IF ppos \notin 1 .. Len(plist)
             THEN \* self.probs.pop(index): pop index out of range
                  /\ ret' = [tag EXCEPT !.status = "IndexError"]
                  /\ UNCHANGED << heap, inst >>
             ELSE
             LET delta == Delta(plist[ppos], n_prev)
                 heap1 == [heap EXCEPT ![me.probs] = RemoveAt(plist, ppos)]
                 left  == heap1[me.nums]
             IN  IF val \notin Range(left)
                 THEN \* self.nums.remove(value): x not in list, after the pop
                      /\ ret' = [tag EXCEPT !.status = "ValueError"]
                      /\ heap' = heap1
                      /\ UNCHANGED inst
                 ELSE
                 LET heap2 == [heap1 EXCEPT ![me.nums] = RemoveAt(left, IndexOf(left, val))]
                     probs == [i \in 1 .. Len(heap2[me.probs]) |-> heap2[me.probs][i] + delta]
                 IN  /\ ret' = tag
                     /\ heap' = [heap2 EXCEPT ![OwnId(s)] = probs]
                     /\ inst' = [inst EXCEPT ![s].probs = OwnId(s),
                                             ![s].cdf = cumsum(probs)]
  /\ UNCHANGED << rngs, kgen >>

\* ---------------------------------------------------------- seed property
SetSeed(s, new_seed) ==
  /\ inst[s].alive
  /\ rngs' = [rngs EXCEPT ![inst[s].rng] = [seed |-> new_seed, count |-> 0]]
  /\ inst' = [inst EXCEPT ![s].seed = new_seed]
  /\ ret' = Ret("set_seed", s, "ok")
  /\ UNCHANGED << heap, kgen >>

\* ----------------------------------------------------------- specifications
\* The caller's program is any sequence of calls.  Three callers are
\* explored: Spec builds two instances from its lists and reduces them with
\* remove(); SpecSeed builds one instance with and without a seed and an
\* injected random source, reseeds it, draws and removes; SpecDraw builds
\* one instance and draws from it, one outcome at a time and through
\* next_k_nums(), with removes in between.
RemoveCall(s) ==
  \/ \E v \in ValueArgs : Remove(s, Some(v), None)
  \/ \E i \in IndexArgs : Remove(s, None, Some(i))
  \/ Remove(s, None, None)
  \/ \E v \in ValueArgs : Remove(s, Some(v), Some(0))

ConstructCall(s, seeds, injs) ==
  \E rn \in CallerIds, pr \in CallerIds \cup {0}, seed \in seeds, inj \in injs :
     Construct(s, rn, pr, seed, inj)

Next ==
  \/ \E s \in Samplers : ConstructCall(s, {NoSeed}, {FALSE})
  \/ \E s \in Samplers : RemoveCall(s)

Spec == Init /\ [][Next]_vars

NextSeed ==
  \/ ConstructCall(1, Seeds \cup {NoSeed}, BOOLEAN)
  \/ \E sd \in Seeds : SetSeed(1, sd)
  \/ \E r \in RVals : NextNum(1, r)
  \/ RemoveCall(1)

SpecSeed == Init /\ [][NextSeed]_vars

NextDraw ==
  \/ ConstructCall(1, {NoSeed}, {FALSE})
  \/ \E r \in RVals : NextNum(1, r)
  \/ \E k \in KArgs : NextKNums(1, k)
  \/ \E r \in RVals : GenNext(r)
  \/ RemoveCall(1)

SpecDraw == Init /\ [][NextDraw]_vars

\* ------------------------------------------------------------- properties
Alive(s) == inst[s].alive
nums(s)  == heap[inst[s].nums]
probs(s) == heap[inst[s].probs]

\* the last call was a draw (it took a uniform value from the random source)
Drew == \/ ret.op = "next"
        \/ ret.op = "gen_next" /\ ret.status \in {"ok", "IndexError"}

\* C1: after every successful Construct and every successful Remove the
\* probabilities of that instance sum to 1 (within the tolerance the
\* constructor accepts) and each of them lies in (0, 1].
C1_SumOneUnitRange ==
  (ret.op \in {"construct", "remove"} /\ ret.status = "ok") =>
     /\ isclose1(SumSeq(probs(ret.s)))
     /\ \A i \in 1 .. Len(probs(ret.s)) : probs(ret.s)[i] > 0 /\ probs(ret.s)[i] <= Den

\* C2: a draw that took r returns values[i] for the smallest i with
\* cdf[i] > r, also when r equals an entry of cdf.
C2_SmallestGreater ==
  (Drew /\ \E i \in 1 .. Len(inst[ret.s].cdf) : inst[ret.s].cdf[i] > ret.r) =>
     LET cdf == inst[ret.s].cdf
         i   == CHOOSE i \in 1 .. Len(cdf) :
                  cdf[i] > ret.r /\ \A j \in 1 .. i - 1 : cdf[j] <= ret.r
     IN  /\ ret.status = "ok"
         /\ i <= Len(nums(ret.s))
         /\ ret.out = nums(ret.s)[i]

\* the 1-based position remove() was asked to delete
Selected(q, value, index) ==
  IF value.some THEN IndexOf(q, value.v) ELSE PyPos(index.v, Len(q))

\* C3: a successful Remove on a table of size n_prev >= 2 (as many
\* probabilities as values), by value or by index, negative indices
\* included, deletes the selected position from values and from
\* probabilities, keeps the order of the rest, and adds to every remaining
\* probability the same share d with d * (n_prev - 1) = p_removed;
\* removing 0 from [-1, 0, 1] with [0.3, 0.3, 0.4] leaves [-1, 1] with
\* [0.45, 0.55].
C3_RemoveEqualShare ==
  [][\A s \in Samplers :
       ( /\ ret'.op = "remove" /\ ret'.s = s /\ ret'.status = "ok"
         /\ Len(nums(s)) = Len(probs(s)) ) =>
       LET n_prev == Len(nums(s))
           j      == Selected(nums(s), ret'.value, ret'.index)
           vals2  == heap'[inst'[s].nums]
           prob2  == heap'[inst'[s].probs]
       IN  /\ n_prev >= 2
           /\ vals2 = RemoveAt(nums(s), j)
           /\ Len(prob2) = n_prev - 1
           /\ LET d == prob2[1] - RemoveAt(probs(s), j)[1]
              IN  /\ d * (n_prev - 1) = probs(s)[j]
                  /\ \A i \in 1 .. n_prev - 1 : prob2[i] = RemoveAt(probs(s), j)[i] + d
           /\ ( /\ nums(s) = << -Den, 0, Den >>
                /\ probs(s) = << 3 * (Den \div 10), 3 * (Den \div 10), 4 * (Den \div 10) >>
                /\ j = 2 ) =>
                  /\ vals2 = << -Den, Den >>
                  /\ prob2 = << 45 * (Den \div 100), 55 * (Den \div 100) >>
    ]_vars

\* a Remove by negative index has produced the table of the example
C3_Witness ==
  /\ ret.op = "remove" /\ ret.status = "ok" /\ ret.index = Some(-2)
  /\ nums(ret.s) = << -Den, Den >>
  /\ probs(ret.s) = << 45 * (Den \div 100), 55 * (Den \div 100) >>

\* C4: every draw computes an index inside values and returns an element
\* of the instance's current values (so never a removed outcome).
C4_DrawInValues ==
  Drew => /\ ret.status = "ok"
          /\ ret.idx \in 0 .. Len(nums(ret.s)) - 1
          /\ ret.out \in Range(nums(ret.s))

\* C5: next_k_nums(k) with a positive integer k never fails, yields k
\* outcomes before it ends and takes one uniform value per outcome; with
\* any other k it fails having yielded nothing and taken nothing.
C5_ExactlyK ==
  kgen.state # "none" =>
    IF ValidCount(kgen.k0)
    THEN /\ kgen.state # "raised"
         /\ kgen.advanced = kgen.yielded
         /\ kgen.yielded <= kgen.k0.v
         /\ kgen.state = "done" => kgen.yielded = kgen.k0.v
    ELSE /\ kgen.state \in {"created", "raised"}
         /\ kgen.yielded = 0 /\ kgen.advanced = 0

WellFormed(s) ==
  /\ Len(nums(s)) = Len(probs(s))
  /\ Len(probs(s)) = Len(inst[s].cdf)
  /\ Len(nums(s)) >= 1
  /\ Cardinality(Range(nums(s))) = Len(nums(s))
  /\ \A i \in 1 .. Len(inst[s].cdf) : inst[s].cdf[i] = SumSeq(SubSeq(probs(s), 1, i))

\* C6: after a successful Construct and after every Remove call, failed
\* or not, the instance has as many values as probabilities as cdf
\* entries, at least one, the values are distinct and cdf is the prefix
\* sums of the probabilities.
C6_TableWellFormed ==
  (\/ ret.op = "construct" /\ ret.status = "ok"
   \/ ret.op = "remove") => WellFormed(ret.s)

\* C7: Construct with non-empty values and a supplied probabilities list
\* of another length, the empty list included, fails and creates no
\* instance; the failure is LengthMismatch (DuplicateValue takes
\* precedence when the values repeat as well).
C7_LengthMismatch ==
  ( /\ ret.op = "construct" /\ ret.pr # 0
    /\ Len(heap[ret.rn]) > 0
    /\ Len(heap[ret.pr]) # Len(heap[ret.rn]) ) =>
      /\ ret.status # "ok"
      /\ ~Alive(ret.s)
      /\ Cardinality(Range(heap[ret.rn])) = Len(heap[ret.rn]) => ret.status = "LengthMismatch"

\* C8: a Remove call that fails leaves every list, the instance (values,
\* probabilities, cdf, stored seed) and the random sources as they were.
C8_FailedRemoveFrame ==
  [][(ret'.op = "remove" /\ ret'.status # "ok") =>
       (heap' = heap /\ inst' = inst /\ rngs' = rngs)]_vars

\* C9: a Construct call that fails leaves the caller's lists and the
\* injected random source as they were, whether or not a seed was passed.
C9_FailedConstructFrame ==
  [][(ret'.op = "construct" /\ ret'.status # "ok") =>
       (heap' = heap /\ rngs'[InjRng] = rngs[InjRng])]_vars

\* C10: a Remove on one instance changes neither a list of the caller nor
\* the table of another instance.
C10_NoAliasing ==
  [][ret'.op = "remove" =>
       /\ \A i \in CallerIds : heap'[i] = heap[i]
       /\ \A t \in Samplers \ {ret'.s} :
            Alive(t) => /\ heap'[inst'[t].nums] = nums(t)
                        /\ heap'[inst'[t].probs] = probs(t)
                        /\ inst'[t] = inst[t] ]_vars

====
